---- MODULE Spec2Model ----
(***************************************************************************)
(* A model of ffs, a demand-driven task runner: the addressing strings,    *)
(* the command grammar, the memoizing Reader and the recursive Builder.    *)
(* Strings are sequences of one-character strings, so that parsing and     *)
(* formatting are computed as the code computes them.                      *)
(***************************************************************************)
EXTENDS Integers, Sequences, FiniteSets, TLC

(***************************************************************************)
(* String primitives of the Rust standard library, on character sequences. *)
(***************************************************************************)

\* Option<T>: None, or Some(v).
None == [some |-> FALSE, v |-> <<>>]

Some(x) == [some |-> TRUE, v |-> x]

\* str::starts_with
StartsWith(s, p) == Len(s) >= Len(p) /\ SubSeq(s, 1, Len(p)) = p

\* str::ends_with
EndsWith(s, p) == Len(s) >= Len(p) /\ SubSeq(s, Len(s) - Len(p) + 1, Len(s)) = p

\* the text after the first n characters
Drop(s, n) == SubSeq(s, n + 1, Len(s))

\* str::strip_prefix
StripPrefix(s, p) == IF StartsWith(s, p) THEN Some(Drop(s, Len(p))) ELSE None

\* the positions at which p occurs in s
Occurrences(s, p) == {i \in 1..(Len(s) - Len(p) + 1) : SubSeq(s, i, i + Len(p) - 1) = p}

\* str::contains
Contains(s, p) == Occurrences(s, p) # {}

Min(S) == CHOOSE x \in S : \A y \in S : x <= y

Max(S) == CHOOSE x \in S : \A y \in S : x >= y

\* the text before and after the occurrence of p at position i
SplitAt(s, p, i) == Some(<<SubSeq(s, 1, i - 1), Drop(s, i + Len(p) - 1)>>)

\* str::split_once: the text before and after the first occurrence of p
SplitOnce(s, p) ==
    IF Contains(s, p) THEN SplitAt(s, p, Min(Occurrences(s, p))) ELSE None

\* str::rsplit_once: the text before and after the last occurrence of p
RSplitOnce(s, p) ==
    IF Contains(s, p) THEN SplitAt(s, p, Max(Occurrences(s, p))) ELSE None

\* str::split on a one-character separator: the segments, empty ones included
RECURSIVE Split(_, _)
Split(s, ch) ==
    LET Rest(r) == IF r.some THEN <<r.v[1]>> \o Split(r.v[2], ch) ELSE <<s>>
    IN  Rest(SplitOnce(s, <<ch>>))

\* [String]::join
RECURSIVE Join(_, _)
Join(parts, sep) ==
    IF Len(parts) = 0 THEN <<>>
    ELSE IF Len(parts) = 1 THEN parts[1]
    ELSE parts[1] \o sep \o Join(Tail(parts), sep)

\* [String]::join("")
RECURSIVE Concat(_)
Concat(parts) == IF Len(parts) = 0 THEN <<>> ELSE parts[1] \o Concat(Tail(parts))

\* str::replace: every non-overlapping occurrence of p, left to right
RECURSIVE Replace(_, _, _)
Replace(s, p, q) ==
    IF Len(s) = 0 THEN <<>>
    ELSE IF StartsWith(s, p) THEN q \o Replace(Drop(s, Len(p)), p, q)
    ELSE <<s[1]>> \o Replace(Tail(s), p, q)

\* the elements of a sequence
Range(s) == {s[i] : i \in DOMAIN s}

(***************************************************************************)
(* Identifiers, target addresses and output references.                    *)
(***************************************************************************)

\* char::is_alphanumeric, on the characters the model's strings are made of
Alphanumeric ==
    {"a", "b", "c", "d", "e", "f", "g", "h", "i", "j", "k", "l", "m",
     "n", "o", "p", "q", "r", "s", "t", "u", "v", "w", "x", "y", "z",
     "A", "B", "C", "D", "E", "F", "G", "H", "I", "J", "K", "L", "M",
     "N", "O", "P", "Q", "R", "S", "T", "U", "V", "W", "X", "Y", "Z",
     "0", "1", "2", "3", "4", "5", "6", "7", "8", "9"}

\* Result<T>: Err, or Ok(v).
Err == [ok |-> FALSE, v |-> <<>>]

Ok(x) == [ok |-> TRUE, v |-> x]

\* ident: every character is alphanumeric, '_' or '-' (the empty string passes)
ident(s) ==
    IF \A i \in DOMAIN s : s[i] \in Alphanumeric \cup {"_", "-"} THEN Ok(s) ELSE Err

\* <TargetPath as FromStr>::from_str: the root marker, no "//" after it,
\* every segment an ident, and a name that is not empty after the last '/'
TargetPathFromStr(s) ==
    LET Parts(pre, r) ==
            IF (IF r.some THEN r.v[2] ELSE pre) = <<>> THEN Err
            ELSE Ok([dir |-> IF r.some THEN Some(r.v[1]) ELSE None,
                     name |-> IF r.some THEN r.v[2] ELSE pre])
        Segments(pre, segs) ==
            IF \E i \in DOMAIN segs : ~ident(segs[i]).ok THEN Err
            ELSE Parts(pre, RSplitOnce(Join(segs, <<"/">>), <<"/">>))
        Stripped(stripped) ==
            IF ~stripped.some THEN Err
            ELSE IF Contains(stripped.v, <<"/", "/">>) THEN Err
            ELSE Segments(stripped.v, Split(stripped.v, "/"))
    IN  Stripped(StripPrefix(s, <<"/", "/">>))

\* TargetPathToString had Display written the directory without its separator
TargetPathToStringJoined(t) ==
    IF t.dir.some THEN <<"/", "/">> \o t.dir.v \o t.name
    ELSE <<"/", "/">> \o t.name

\* <TargetPath as Display>::fmt
TargetPathToString(t) ==
    IF t.dir.some THEN <<"/", "/">> \o t.dir.v \o <<"/">> \o t.name
    ELSE <<"/", "/">> \o t.name

\* TargetPath::definition: the definition file of the target, relative to
\* the root
TargetPathDefinition(t) ==
    IF t.dir.some THEN t.dir.v \o <<"/", "F", "F", "S">> ELSE <<"F", "F", "S">>

\* the slot an output reference without ':' names
DefaultSlot == <<"d", "e", "f", "a", "u", "l", "t">>

\* OutputFromStr had the slot not been checked
OutputFromStrAnySlot(s) ==
    LET Parts(slot, parsed) ==
            IF ~parsed.ok THEN Err
            ELSE Ok([target |-> parsed.v, name |-> slot])
        Halves(r) ==
            IF r.some THEN Parts(r.v[2], TargetPathFromStr(r.v[1]))
            ELSE Parts(DefaultSlot, TargetPathFromStr(s))
    IN  Halves(SplitOnce(s, <<":">>))

\* <Output as FromStr>::from_str: the slot after the first ':' (or the
\* default slot) must be an ident and the target before it must parse
OutputFromStr(s) ==
    LET Parts(slot, parsed) ==
            IF ~ident(slot).ok THEN Err
            ELSE IF ~parsed.ok THEN Err
            ELSE Ok([target |-> parsed.v, name |-> slot])
        Halves(r) ==
            IF r.some THEN Parts(r.v[2], TargetPathFromStr(r.v[1]))
            ELSE Parts(DefaultSlot, TargetPathFromStr(s))
    IN  Halves(SplitOnce(s, <<":">>))

\* <Output as Display>::fmt
OutputToString(o) == TargetPathToString(o.target) \o <<":">> \o o.name

(***************************************************************************)
(* Commands: literal fragments and output references.                      *)
(***************************************************************************)

NoOutput == [target |-> [dir |-> None, name |-> <<>>], name |-> <<>>]

\* Word::Lit
Lit(s) == [kind |-> "Lit", lit |-> s, output |-> NoOutput]

\* Word::Output
OutputWord(o) == [kind |-> "Output", lit |-> <<>>, output |-> o]

\* the separators of Command::from_str
pat == {" ", "\n"}

\* str::split_inclusive(pat): every piece ends with its separator, the last
\* piece may have none; the empty string has no piece
RECURSIVE SplitInclusive(_)
SplitInclusive(s) ==
    LET At(hits) ==
            IF hits = {} THEN <<s>>
            ELSE <<SubSeq(s, 1, Min(hits))>> \o SplitInclusive(Drop(s, Min(hits)))
    IN  IF Len(s) = 0 THEN <<>> ELSE At({i \in DOMAIN s : s[i] \in pat})

\* str::trim_end_matches(pat)
RECURSIVE TrimEndMatches(_)
TrimEndMatches(s) ==
    IF Len(s) > 0 /\ s[Len(s)] \in pat THEN TrimEndMatches(SubSeq(s, 1, Len(s) - 1)) ELSE s

\* WordsOf had the separators after a reference not been kept
WordsOfReferenceOnly(piece) ==
    LET Parsed(trimmed, parsed) ==
            IF parsed.ok THEN <<OutputWord(parsed.v)>>
            ELSE <<Lit(piece)>>
        Trimmed(trimmed) == Parsed(trimmed, OutputFromStr(trimmed))
    IN  Trimmed(TrimEndMatches(piece))

\* the words Command::from_str pushes for one piece of the split: a piece
\* whose trimmed text parses is an output followed by the trimmed separators
WordsOf(piece) ==
    LET Parsed(trimmed, parsed) ==
            IF parsed.ok THEN <<OutputWord(parsed.v), Lit(Drop(piece, Len(trimmed)))>>
            ELSE <<Lit(piece)>>
        Trimmed(trimmed) == Parsed(trimmed, OutputFromStr(trimmed))
    IN  Trimmed(TrimEndMatches(piece))

RECURSIVE WordsOfPieces(_)
WordsOfPieces(pieces) ==
    IF Len(pieces) = 0 THEN <<>> ELSE WordsOf(pieces[1]) \o WordsOfPieces(Tail(pieces))

\* <Command as FromStr>::from_str: the words of a command string
CommandFromStr(s) == WordsOfPieces(SplitInclusive(s))

\* FirstMissing had the collect kept the last error instead of the first
LastMissing(words, outputs) ==
    LET Last(missing) == IF missing = {} THEN 0 ELSE Max(missing)
    IN  Last({i \in DOMAIN words :
                words[i].kind = "Output" /\ words[i].output \notin DOMAIN outputs})

\* the first word of the command that is a reference absent from the table, or 0
FirstMissing(words, outputs) ==
    LET First(missing) == IF missing = {} THEN 0 ELSE Min(missing)
    IN  First({i \in DOMAIN words :
                 words[i].kind = "Output" /\ words[i].output \notin DOMAIN outputs})

\* Command::as_sh: the rendered shell string, or the first missing output
as_sh(words, outputs) ==
    LET From(m) ==
            IF m # 0 THEN [ok |-> FALSE, v |-> <<>>, missing |-> words[m].output]
            ELSE [ok |-> TRUE,
                  v |-> Concat([i \in DOMAIN words |->
                                  IF words[i].kind = "Lit" THEN words[i].lit
                                  ELSE outputs[words[i].output]]),
                  missing |-> NoOutput]
    IN  From(FirstMissing(words, outputs))

\* Command::targets
targets(words) ==
    LET Of(refs) == [i \in DOMAIN refs |-> refs[i].output.target]
    IN  Of(SelectSeq(words, LAMBDA w : w.kind = "Output"))

(***************************************************************************)
(* The address functions the Builder and the run driver use.               *)
(***************************************************************************)

FFS == <<"F", "F", "S">>

\* path_to_definition: the definition file of a target address, relative to the root
path_to_definition(target) ==
    LET Halves(r) == IF r.some THEN Ok(r.v[1] \o <<"/">> \o FFS) ELSE Ok(FFS)
        Stripped(stripped) ==
            IF ~stripped.some THEN Err ELSE Halves(RSplitOnce(stripped.v, <<"/">>))
    IN  Stripped(StripPrefix(target, <<"/", "/">>))

\* name: the text after the last '/' of a target address
name(target) ==
    LET Halves(r) == IF r.some THEN Ok(r.v[2]) ELSE Err
    IN  Halves(RSplitOnce(target, <<"/">>))

(***************************************************************************)
(* std::path::Path, on the relative and absolute paths of a run.           *)
(***************************************************************************)

\* Path::components: the root, a leading ".", and the normal components;
\* empty components and inner "." are skipped
Components(p) ==
    LET Of(segs) ==
            (IF StartsWith(p, <<"/">>) THEN << <<"/">> >>
             ELSE IF segs[1] = <<".">> THEN << <<".">> >>
             ELSE <<>>)
            \o SelectSeq(segs, LAMBDA c : c # <<>> /\ c # <<".">>)
    IN  Of(Split(p, "/"))

\* the path with the given components
PathOf(cs) ==
    IF Len(cs) > 0 /\ cs[1] = <<"/">> THEN <<"/">> \o Join(Tail(cs), <<"/">>)
    ELSE Join(cs, <<"/">>)

\* Path::file_name: the last component, when it is a normal one
file_name(p) ==
    LET Of(cs) ==
            IF Len(cs) > 0 /\ cs[Len(cs)] \notin {<<"/">>, <<".">>} THEN Some(cs[Len(cs)])
            ELSE None
    IN  Of(Components(p))

\* Path::parent: the path without its last component
parent(p) ==
    LET Of(cs) ==
            IF Len(cs) = 0 \/ cs = << <<"/">> >> THEN None
            ELSE Some(PathOf(SubSeq(cs, 1, Len(cs) - 1)))
    IN  Of(Components(p))

\* Path::strip_prefix: the rest of p after the components of base
strip_prefix(p, base) ==
    LET Of(cs, bs) ==
            IF Len(bs) <= Len(cs) /\ SubSeq(cs, 1, Len(bs)) = bs
            THEN Ok(PathOf(SubSeq(cs, Len(bs) + 1, Len(cs))))
            ELSE Err
    IN  Of(Components(p), Components(base))

\* Path::join with a relative path
join(base, rel) ==
    IF StartsWith(rel, <<"/">>) \/ base = <<>> THEN rel
    ELSE IF EndsWith(base, <<"/">>) THEN base \o rel
    ELSE base \o <<"/">> \o rel

\* std_to_ffs: the address "//dir" of a definition file or directory: a
\* definition file stands for its directory, "./" is stripped, "//" put in
\* front and "///" made "//"
std_to_ffs(file_or_dir) ==
    LET Stripped(without_ffs, stripped) ==
            Replace(<<"/", "/">> \o (IF stripped.ok THEN stripped.v ELSE without_ffs),
                    <<"/", "/", "/">>, <<"/", "/">>)
        Dir(without_ffs) == Stripped(without_ffs, strip_prefix(without_ffs, <<".", "/">>))
        Named(fname) ==
            IF fname.some /\ fname.v = FFS THEN Dir(parent(file_or_dir).v)
            ELSE Dir(file_or_dir)
    IN  Named(file_name(file_or_dir))

\* TargetPath::from_path_name: the address of the target `target_name` of a
\* definition file or directory, neither of them checked
from_path_name(path, target_name) ==
    LET Dir(text) == [dir |-> IF text = <<>> THEN None ELSE Some(text),
                      name |-> target_name]
        Text(text) ==
            Dir(IF EndsWith(text, <<"/">>) THEN SubSeq(text, 1, Len(text) - 1) ELSE text)
        Named(p, fname) == Text(IF fname.some /\ fname.v = FFS THEN parent(p).v ELSE p)
        Of(p) == Named(p, file_name(p))
        Stripped(stripped) == Of(IF stripped.ok THEN stripped.v ELSE path)
    IN  Ok(Stripped(strip_prefix(path, <<".", "/">>)))

\* task_path: the address of the target `name` of a definition file or directory
task_path(file_or_dir, target_name) ==
    LET Of(result) ==
            (IF EndsWith(result, <<"/">>) THEN result ELSE result \o <<"/">>) \o target_name
    IN  Of(std_to_ffs(file_or_dir))

(***************************************************************************)
(* Selectors.                                                              *)
(***************************************************************************)

\* <Selector as FromStr>::from_str: the tags after '@', then everything, a
\* glob, or an exact address
SelectorFromStr(s) ==
    LET Rest(rest, tags) ==
            IF rest \in {<<"*">>, <<>>}
            THEN Ok([target |-> <<"/">>, allow_children |-> TRUE, required_tags |-> tags])
            ELSE IF ~StartsWith(rest, <<"/", "/">>) THEN Err
            ELSE IF EndsWith(rest, <<"/", ".", ".", ".">>)
            THEN Ok([target |-> SubSeq(rest, 1, Len(rest) - 4),
                     allow_children |-> TRUE, required_tags |-> tags])
            ELSE Ok([target |-> rest, allow_children |-> FALSE, required_tags |-> tags])
        Halves(r) ==
            IF r.some THEN Rest(r.v[1], Range(Split(r.v[2], ","))) ELSE Rest(s, {})
    IN  Halves(SplitOnce(s, <<"@">>))

\* matches had a glob accepted every address that starts with its target
matchesByPrefix(sel, task_id, tags) ==
    LET Child(child) ==
            IF ~child.some THEN FALSE
            ELSE IF child.v = <<>> THEN TRUE
            ELSE sel.allow_children
    IN  IF ~(sel.required_tags \subseteq tags) THEN FALSE
        ELSE Child(StripPrefix(task_id, sel.target))

\* matches had one of the required tags been enough
matchesAnyTag(sel, task_id, tags) ==
    LET Child(child) ==
            IF ~child.some THEN FALSE
            ELSE IF child.v = <<>> THEN TRUE
            ELSE IF sel.allow_children THEN StartsWith(child.v, <<"/">>)
            ELSE FALSE
    IN  IF sel.required_tags # {} /\ sel.required_tags \cap tags = {} THEN FALSE
        ELSE Child(StripPrefix(task_id, sel.target))

\* Selector::matches
matches(sel, task_id, tags) ==
    LET Child(child) ==
            IF ~child.some THEN FALSE
            ELSE IF child.v = <<>> THEN TRUE
            ELSE IF sel.allow_children THEN StartsWith(child.v, <<"/">>)
            ELSE FALSE
    IN  IF ~(sel.required_tags \subseteq tags) THEN FALSE
        ELSE Child(StripPrefix(task_id, sel.target))

\* matches_file had an exact selector been tested like a glob of the parent
matches_fileByPrefix(sel, path) ==
    LET Ffs(ffs) ==
            IF sel.allow_children THEN StartsWith(ffs, sel.target)
            ELSE StartsWith(ffs, RSplitOnce(sel.target, <<"/">>).v[1])
    IN  Ffs(std_to_ffs(path))

\* Selector::matches_file
matches_file(sel, path) ==
    LET Parent(ffs, target_parent) ==
            ffs = target_parent \/ (ffs = <<"/", "/">> /\ target_parent = <<"/">>)
        Ffs(ffs) ==
            IF sel.allow_children THEN StartsWith(ffs, sel.target)
            ELSE Parent(ffs, RSplitOnce(sel.target, <<"/">>).v[1])
    IN  Ffs(std_to_ffs(path))

(***************************************************************************)
(* The project of a run: two definition files, ./FFS with the targets      *)
(* //a and //b and ./d/FFS with the target //d/c.                          *)
(***************************************************************************)

\* std::env::current_dir(), the root of the run
Root == <<"/", "w">>

\* the entries of the tree walk that are definition files
EntryRoot == <<".", "/", "F", "F", "S">>

EntrySub == <<".", "/", "d", "/", "F", "F", "S">>

Entries == {EntryRoot, EntrySub}

\* target addresses
TargetA == <<"/", "/", "a">>

TargetB == <<"/", "/", "b">>

TargetC == <<"/", "/", "d", "/", "c">>

\* command strings
CmdEcho == <<"e", "c", "h", "o">>

CmdB == <<"c", "a", "t", " ", "/", "/", "b">>

CmdBB == <<"c", "a", "t", " ", "/", "/", "b", " ", "/", "/", "b", ":", "x">>

CmdBC == <<"c", "a", "t", " ", "/", "/", "b", ":", "x", "\n", "/", "/", "d", "/", "c">>

CmdSelf == <<"c", "a", "t", " ", "/", "/", "a">>

CmdC == <<"c", "a", "t", " ", "/", "/", "d", "/", "c">>

\* Option<Os>
NoOs == [some |-> FALSE, v |-> ""]

\* os::host() of the build the model describes
host == "Linux"

\* TargetDef::Task
Task(cmd, prereqs, tags, outs) ==
    [kind |-> "Task", cmd |-> cmd, prereqs |-> prereqs, tags |-> tags, outs |-> outs,
     runs_on |-> NoOs]

\* TargetDef::Build
Build(cmd, prereqs, tags, outs, runs_on) ==
    [kind |-> "Build", cmd |-> cmd, prereqs |-> prereqs, tags |-> tags, outs |-> outs,
     runs_on |-> runs_on]

\* RunsOn had the constraint of a Build been dropped
RunsOnNone(task) == NoOs

\* TargetDef::as_build(..).and_then(|b| b.runs_on): a Task has no constraint
RunsOn(task) == IF task.kind = "Build" THEN task.runs_on ELSE NoOs

\* declared outputs: slot name to path relative to the definition's directory
NoOuts == [s \in {} |-> <<>>]

OutDefault == [s \in {DefaultSlot} |-> <<"o", "u", "t">>]

OutBoth == [s \in {DefaultSlot, <<"x">>} |-> IF s = DefaultSlot THEN <<"o", "u", "t">> ELSE <<"x">>]

\* the definitions a file may give //a
DefsA ==
    {Task(cmd, prereqs, {<<"t">>}, OutDefault) :
        cmd \in {CmdEcho, CmdB, CmdBB, CmdBC, CmdSelf},
        prereqs \in {{}, {TargetB}, {TargetC}, {TargetB, TargetC}}}

\* the definitions a file may give //b
DefsB ==
    {Task(cmd, prereqs, {}, outs) :
        cmd \in {CmdEcho, CmdC},
        prereqs \in {{}, {TargetC}, {TargetA}},
        outs \in {NoOuts, OutDefault, OutBoth}}

\* the contents ./d/FFS may have: no target, or //d/c as a Task or a Build,
\* for another platform (with or without a prerequisite) or for any platform
SetsC ==
    {[n \in {} |-> Task(CmdEcho, {}, {}, NoOuts)]}
    \cup {[n \in {<<"c">>} |-> def] :
            def \in {Task(CmdEcho, {}, {}, NoOuts),
                     Task(CmdEcho, {}, {}, OutDefault),
                     Build(CmdEcho, {}, {}, OutDefault, [some |-> TRUE, v |-> "Mac"]),
                     Build(CmdEcho, {TargetB}, {}, OutDefault, [some |-> TRUE, v |-> "Mac"]),
                     Build(CmdEcho, {}, {}, OutDefault, NoOs)}}

\* the definition files of a project, by path relative to the root
Projects ==
    {[f \in {FFS, <<"d", "/">> \o FFS} |->
        IF f = FFS THEN [n \in {<<"a">>, <<"b">>} |-> IF n = <<"a">> THEN a ELSE b]
        ELSE c] :
        a \in DefsA, b \in DefsB, c \in SetsC}

\* the selectors of a run
Selectors ==
    {SelectorFromStr(s).v : s \in {<<"*">>, <<"/", "/", "a">>, <<"/", "/", "d", "/", ".", ".", ".">>}}

\* the path of a file relative to the root, whichever way it is written
Canon(p) ==
    LET Of(abs, rel) == IF abs.ok THEN abs.v ELSE IF rel.ok THEN rel.v ELSE p
    IN  Of(strip_prefix(p, Root), strip_prefix(p, <<".", "/">>))

(***************************************************************************)
(* Bounds of the model.                                                    *)
(***************************************************************************)

\* the threads that may call Reader::read (the run itself is thread 1)
NumThreads == 2

\* the shards of the DashMap behind the Reader's cache
NumShards == 2

\* the read calls one client thread makes
MaxCalls == 2

\* the frames of the Builder's recursion (deeper recursion is not followed)
MaxDepth == 5

\* the processes one run spawns (a longer run is not followed)
MaxSpawns == 5

Threads == 1..NumThreads

Main == 1

VARIABLES
    files,        \* the definition files on disk: relative path -> TargetSet
    sel,          \* the selector of the run
    cache,        \* Reader.cache: path -> Arc<TargetSet>
    lock,         \* the write lock of each shard of Reader.cache: holder or 0
    shard,        \* the shard each key hashes to
    rd,           \* each thread's call of Reader::read
    calls,        \* the read calls each client thread has made
    loads,        \* history: per path, the outcomes of the load calls, in order
    received,     \* history: every <<path, arc>> a read call returned
    target_outs,  \* Builder.target_outs: Output -> file
    disk,         \* the output files that exist, relative to the root
    stack,        \* the frames of Builder::build and Builder::execute
    ret,          \* the value the last call returned to its caller
    run,          \* the locals of run()
    log,          \* history: the build calls, build successes and spawns
    at_spawn,     \* history: target_outs when the last process was spawned
    probe         \* a call of a selector or target function on its own

vars ==
    <<files, sel, cache, lock, shard, rd, calls, loads, received, target_outs,
      disk, stack, ret, run, log, at_spawn, probe>>

reader_vars == <<cache, lock, rd, loads, received>>

builder_vars == <<target_outs, disk, stack, ret, run, log, at_spawn>>

(***************************************************************************)
(* Reader: the memoizing cache of parsed definition files.                 *)
(***************************************************************************)

\* the keys under which the run reads its definition files
ReaderPaths == Entries \cup {join(Root, Canon(e)) : e \in Entries}

NoResult == [kind |-> "none", arc |-> 0, targets |-> <<>>]

Idle == [pc |-> "idle", path |-> <<>>, result |-> NoResult]

\* a call of Reader::read(path), about to look the path up
Reading(path) == [pc |-> "entry", path |-> path, result |-> NoResult]

\* the number of Arc<TargetSet> made so far
Arcs == Cardinality({<<p, i>> \in UNION {{p} \X DOMAIN loads[p] : p \in DOMAIN loads} :
                        loads[p][i]})

\* EntryFree had the map no lock: entry never waits
EntryFreeAlways(path) == TRUE

\* DashMap::entry takes the write lock of the key's shard: it waits while
\* another entry of the shard is alive
EntryFree(path) == lock[shard[path]] = 0

\* CacheAfterLoad had read inserted whatever load returned, a failure too
CacheAfterLoadAlways(path, ok, tasks) ==
    (path :> [arc |-> Arcs + 1, targets |-> tasks]) @@ cache

\* the cache once load has returned: VacantEntry::insert on success, the
\* entry dropped on failure
CacheAfterLoad(path, ok, tasks) ==
    IF ok THEN (path :> [arc |-> Arcs + 1, targets |-> tasks]) @@ cache ELSE cache

\* LockAfterLoad had read kept the vacant entry alive when load fails
LockAfterLoadKeptOnFailure(path, ok) ==
    IF ok THEN [lock EXCEPT ![shard[path]] = 0] ELSE lock

\* the locks once load has returned: the entry is consumed by insert or
\* dropped by `?`, and its shard unlocked
LockAfterLoad(path, ok) == [lock EXCEPT ![shard[path]] = 0]

\* Reader::read up to the match on the entry: an occupied entry returns the
\* shared TargetSet, a vacant one is kept (with the shard's lock) for load
ReadEntry(t) ==
    /\ rd[t].pc = "entry"
    /\ EntryFree(rd[t].path)
    /\ IF rd[t].path \in DOMAIN cache
       THEN /\ rd' = [rd EXCEPT ![t].pc = "done",
                                ![t].result = [kind |-> "ok",
                                               arc |-> cache[rd[t].path].arc,
                                               targets |-> cache[rd[t].path].targets]]
            /\ received' = received \cup {<<rd[t].path, cache[rd[t].path].arc>>}
            /\ UNCHANGED lock
       ELSE /\ rd' = [rd EXCEPT ![t].pc = "load"]
            /\ lock' = [lock EXCEPT ![shard[rd[t].path]] = t]
            /\ UNCHANGED received
    /\ UNCHANGED <<cache, loads>>

\* Reader::read from load to its return: load fails (the file is unreadable
\* or malformed) or yields the file's TargetSet, which is inserted; either
\* way the entry, and with it the shard's lock, is dropped
ReadLoad(t) ==
    LET FileAt(path) == IF path \in DOMAIN files THEN files[path] ELSE <<>>
        Result(path, readable, after) ==
            IF readable
            THEN [kind |-> "ok", arc |-> after[path].arc, targets |-> after[path].targets]
            ELSE [kind |-> "err", arc |-> 0, targets |-> <<>>]
        Loaded(path, readable, result) ==
            /\ loads' = IF path \in DOMAIN loads
                        THEN [loads EXCEPT ![path] = Append(@, readable)]
                        ELSE (path :> <<readable>>) @@ loads
            /\ rd' = [rd EXCEPT ![t].pc = "done", ![t].result = result]
            /\ received' = IF readable THEN received \cup {<<path, result.arc>>} ELSE received
            /\ lock' = LockAfterLoad(path, readable)
    IN  /\ rd[t].pc = "load"
        /\ \E readable \in BOOLEAN :
             /\ readable => Canon(rd[t].path) \in DOMAIN files
             /\ cache' = CacheAfterLoad(rd[t].path, readable, FileAt(Canon(rd[t].path)))
             /\ Loaded(rd[t].path, readable, Result(rd[t].path, readable, cache'))

\* the paths the client threads read: one file under its two keys
ClientPaths == {EntryRoot, join(Root, Canon(EntryRoot))}

\* a client thread calls Reader::read on some path
ClientCall(t) ==
    /\ rd[t].pc \in {"idle", "done"}
    /\ calls[t] < MaxCalls
    /\ \E path \in ClientPaths :
         rd' = [rd EXCEPT ![t] = Reading(path)]
    /\ calls' = [calls EXCEPT ![t] = @ + 1]
    /\ UNCHANGED <<cache, lock, loads, received>>

(***************************************************************************)
(* Builder: build, execute and parse_command as frames of a call stack.    *)
(***************************************************************************)

NoTask == Task(<<>>, {}, {}, NoOuts)

NoRet == [kind |-> "none", of |-> <<>>, status |-> 0, cause |-> "", ctx |-> <<>>]

\* Ok(()) of build(target)
BuiltRet(target) == [NoRet EXCEPT !.kind = "ok", !.of = target]

\* Ok(output) of execute(path, ..): the exit status of the process
OutputRet(path, status) == [NoRet EXCEPT !.kind = "output", !.of = path, !.status = status]

\* an error raised for `target`
ErrRet(target, cause) == [NoRet EXCEPT !.kind = "err", !.of = target, !.cause = cause]

\* an error on its way out through a function with a context attribute
WithContext(e, what, target) ==
    [e EXCEPT !.ctx = Append(@, [what |-> what, target |-> target])]

\* the frame of a call build(target)
BuildFrame(target) ==
    [fn |-> "build", target |-> target, path |-> <<>>, task |-> NoTask, dir |-> <<>>,
     pc |-> "start", todo |-> {}, done |-> {}, built |-> <<>>, reported |-> <<>>,
     command |-> <<>>]

\* ExecuteFrame had execute skipped the loop over the prerequisites
ExecuteFrameNoPrereqs(path, task, dir) ==
    [fn |-> "execute", target |-> path, path |-> path, task |-> task, dir |-> dir,
     pc |-> "render", todo |-> task.prereqs, done |-> {}, built |-> <<>>,
     reported |-> <<>>, command |-> <<>>]

\* the frame of a call execute(path, task, dir): the loop over the
\* prerequisites comes first
ExecuteFrame(path, task, dir) ==
    [fn |-> "execute", target |-> path, path |-> path, task |-> task, dir |-> dir,
     pc |-> IF task.prereqs = {} THEN "render" ELSE "prereqs",
     todo |-> task.prereqs, done |-> {}, built |-> <<>>, reported |-> <<>>,
     command |-> <<>>]

Top == stack[Len(stack)]

Pop == SubSeq(stack, 1, Len(stack) - 1)

SetTop(f) == [stack EXCEPT ![Len(stack)] = f]

At(fn, pc) == stack # <<>> /\ Top.fn = fn /\ Top.pc = pc

Spawns == SelectSeq(log, LAMBDA e : e.ev = "spawn")

Event(ev, target, status) == [ev |-> ev, target |-> target, status |-> status]

\* command::parse_command(c, &target_outs): the rendered command, or the
\* text of the first reference the table does not hold
parse_command(c, outputs) ==
    LET From(r) ==
            IF r.ok THEN [ok |-> TRUE, v |-> r.v, missing |-> NoOutput]
            ELSE [ok |-> FALSE, v |-> OutputToString(r.missing), missing |-> r.missing]
    IN  From(as_sh(CommandFromStr(c), outputs))

\* the target of an unknown reference: the text before its ':'
UnknownTargetPath(t) ==
    LET Halves(r) == IF r.some THEN r.v[1] ELSE t
    IN  Halves(SplitOnce(t, <<":">>))

\* PrereqFailed had execute dropped the result of build(prereq)
PrereqFailedNever(r) == FALSE

\* whether the build of a prerequisite returned an error: the `?` of the loop
PrereqFailed(r) == r.kind = "err"

\* execute: one turn of the loop over task.prereqs, calling build(prereq)
ExecPrereqCall ==
    /\ At("execute", "prereqs")
    /\ ret.kind = "none"
    /\ Len(stack) < MaxDepth
    /\ \E prereq \in Top.todo :
         /\ stack' = Append(SetTop([Top EXCEPT !.todo = @ \ {prereq}]), BuildFrame(prereq))
         /\ log' = Append(log, Event("build", prereq, 0))
    /\ UNCHANGED <<probe, files, sel, shard, calls, reader_vars, target_outs, disk, ret, run, at_spawn>>

\* execute: build(prereq) has returned; an error leaves execute at once
ExecPrereqRet ==
    /\ At("execute", "prereqs")
    /\ ret.kind # "none"
    /\ IF PrereqFailed(ret)
       THEN /\ stack' = Pop
            /\ UNCHANGED ret
       ELSE /\ stack' = SetTop([Top EXCEPT !.done = @ \cup {ret.of},
                                           !.pc = IF Top.todo = {} THEN "render" ELSE "prereqs"])
            /\ ret' = NoRet
    /\ UNCHANGED <<probe, files, sel, shard, calls, reader_vars, target_outs, disk, run, log, at_spawn>>

\* Builder::parse_command: one turn of its loop; the command is rendered, or
\* build is called for the target of the first missing output
ExecRender ==
    LET Calls(missing, target) ==
            /\ Len(stack) < MaxDepth
            /\ stack' = Append(SetTop([Top EXCEPT !.reported = Append(@, missing),
                                                  !.built = Append(@, target)]),
                               BuildFrame(target))
            /\ log' = Append(log, Event("build", target, 0))
        Rendered(r) ==
            IF r.ok
            THEN /\ stack' = SetTop([Top EXCEPT !.pc = "spawn", !.command = r.v])
                 /\ UNCHANGED log
            ELSE Calls(r.missing, UnknownTargetPath(r.v))
    IN  /\ At("execute", "render")
        /\ ret.kind = "none"
        /\ Rendered(parse_command(Top.task.cmd, target_outs))
        /\ UNCHANGED <<probe, files, sel, shard, calls, reader_vars, target_outs, disk, ret, run,
                       at_spawn>>

\* ExecRenderRet had parse_command gone round its loop again after an error
\* of build
ExecRenderRetRetry ==
    /\ At("execute", "render")
    /\ ret.kind # "none"
    /\ ret' = NoRet
    /\ UNCHANGED <<probe, files, sel, shard, calls, reader_vars, target_outs, disk, stack, run, log,
                   at_spawn>>

\* Builder::parse_command: build has returned; an error leaves parse_command
\* and execute, with the context of parse_command
ExecRenderRet ==
    /\ At("execute", "render")
    /\ ret.kind # "none"
    /\ IF ret.kind = "err"
       THEN /\ stack' = Pop
            /\ ret' = WithContext(ret, "Parsing command for", Top.path)
       ELSE /\ UNCHANGED stack
            /\ ret' = NoRet
    /\ UNCHANGED <<probe, files, sel, shard, calls, reader_vars, target_outs, disk, run, log, at_spawn>>

\* the files a target declares, relative to the root
OwnFiles(task, dir) == {Canon(join(dir, task.outs[s])) : s \in DOMAIN task.outs}

\* the process of a target: it cannot be spawned, or it runs, leaves some of
\* its declared files and exits
Process(path, task, dir) ==
    \/ /\ ret' = ErrRet(path, "SpawnFailed")
       /\ UNCHANGED <<disk, log, at_spawn>>
    \/ /\ ret' = OutputRet(path, 1)
       /\ log' = Append(log, Event("spawn", path, 1))
       /\ at_spawn' = target_outs
       /\ UNCHANGED disk
    \/ \E made \in SUBSET OwnFiles(task, dir) :
          /\ ret' = OutputRet(path, 0)
          /\ log' = Append(log, Event("spawn", path, 0))
          /\ at_spawn' = target_outs
          /\ disk' = (disk \ OwnFiles(task, dir)) \cup made

\* ExecSpawn had the Builder kept the result of a target that succeeded
ExecSpawnCached ==
    /\ At("execute", "spawn")
    /\ stack' = Pop
    /\ IF RunsOn(Top.task).some /\ RunsOn(Top.task).v # host
       THEN /\ ret' = ErrRet(Top.path, "UnsupportedPlatform")
            /\ UNCHANGED <<disk, log, at_spawn>>
       ELSE IF \E i \in DOMAIN log : log[i] = Event("spawn", Top.path, 0)
       THEN /\ ret' = OutputRet(Top.path, 0)
            /\ UNCHANGED <<disk, log, at_spawn>>
       ELSE /\ Len(Spawns) < MaxSpawns
            /\ Process(Top.path, Top.task, Top.dir)
    /\ UNCHANGED <<probe, files, sel, shard, calls, reader_vars, target_outs, run>>

\* Executor::execute: the platform check, then the process
ExecSpawn ==
    /\ At("execute", "spawn")
    /\ stack' = Pop
    /\ IF RunsOn(Top.task).some /\ RunsOn(Top.task).v # host
       THEN /\ ret' = ErrRet(Top.path, "UnsupportedPlatform")
            /\ UNCHANGED <<disk, log, at_spawn>>
       ELSE /\ Len(Spawns) < MaxSpawns
            /\ Process(Top.path, Top.task, Top.dir)
    /\ UNCHANGED <<probe, files, sel, shard, calls, reader_vars, target_outs, run>>

\* build: an error of build itself, with the context of build
BuildFails(cause) ==
    /\ stack' = Pop
    /\ ret' = WithContext(ErrRet(Top.target, cause), "Building", Top.target)

\* BuildStart had build refused a target that is being built already
BuildStartDetectsCycle ==
    LET Reads(definition) ==
            IF \E i \in 1..(Len(stack) - 1) :
                  stack[i].fn = "build" /\ stack[i].target = Top.target
            THEN /\ BuildFails("Cycle")
                 /\ UNCHANGED rd
            ELSE IF ~definition.ok
            THEN /\ BuildFails("InvalidTarget")
                 /\ UNCHANGED rd
            ELSE /\ stack' = SetTop([Top EXCEPT !.pc = "read"])
                 /\ rd' = [rd EXCEPT ![Main] = Reading(join(Root, definition.v))]
                 /\ UNCHANGED ret
    IN  /\ At("build", "start")
        /\ Reads(path_to_definition(Top.target))
        /\ UNCHANGED <<probe, files, sel, shard, calls, cache, lock, loads, received, target_outs,
                       disk, run, log, at_spawn>>

\* build: the definition file of the target is read
BuildStart ==
    LET Reads(definition) ==
            IF ~definition.ok
            THEN /\ BuildFails("InvalidTarget")
                 /\ UNCHANGED rd
            ELSE /\ stack' = SetTop([Top EXCEPT !.pc = "read"])
                 /\ rd' = [rd EXCEPT ![Main] = Reading(join(Root, definition.v))]
                 /\ UNCHANGED ret
    IN  /\ At("build", "start")
        /\ Reads(path_to_definition(Top.target))
        /\ UNCHANGED <<probe, files, sel, shard, calls, cache, lock, loads, received, target_outs,
                       disk, run, log, at_spawn>>

\* build: the file is read; the target is looked up and executed, under its
\* address, in the directory of its definition file
BuildRead ==
    LET Executes(path, task, dir) ==
            /\ Len(stack) < MaxDepth
            /\ stack' = Append(SetTop([Top EXCEPT !.pc = "execute", !.path = path,
                                                  !.task = task, !.dir = dir]),
                               ExecuteFrame(path, task, dir))
            /\ UNCHANGED ret
        In(n, task, dir) == Executes(task_path(strip_prefix(dir, Root).v, n), task, dir)
        LooksUp(definition, result, n) ==
            IF result.kind = "err" THEN BuildFails("DefinitionError")
            ELSE IF ~n.ok THEN BuildFails("InvalidTarget")
            ELSE IF n.v \notin DOMAIN result.targets THEN BuildFails("UnknownTask")
            ELSE In(n.v, result.targets[n.v], parent(definition).v)
    IN  /\ At("build", "read")
        /\ rd[Main].pc = "done"
        /\ rd' = [rd EXCEPT ![Main] = Idle]
        /\ LooksUp(rd[Main].path, rd[Main].result, name(Top.target))
        /\ UNCHANGED <<probe, files, sel, shard, calls, cache, lock, loads, received, target_outs,
                       disk, run, log, at_spawn>>

\* the orders in which a HashMap or HashSet may yield the elements of S
Orders(S) == {o \in [1..Cardinality(S) -> S] : \A i, j \in DOMAIN o : o[i] = o[j] => i = j}

\* the key build inserts for a slot of a target, as the Output it names
OutputKey(path, slot) ==
    OutputFromStr(IF slot = DefaultSlot THEN path ELSE path \o <<":">> \o slot).v

\* the file of a declared slot
OutFile(task, dir, slot) == join(dir, task.outs[slot])

\* Path::exists, for a file under the root
Exists(file, files_on_disk) == Canon(file) \in files_on_disk

\* the table with the given slots inserted, a later slot over an earlier one
RECURSIVE InsertOuts(_, _, _, _, _)
InsertOuts(table, path, task, dir, slots) ==
    IF slots = <<>> THEN table
    ELSE InsertOuts((OutputKey(path, Head(slots)) :> OutFile(task, dir, Head(slots))) @@ table,
                    path, task, dir, Tail(slots))

\* RecordOuts had build started the table afresh for every target
RecordOutsAfresh(table, path, task, dir, order, files_on_disk) ==
    InsertOuts(<<>>, path, task, dir, order)

\* RecordOuts had build recorded the default slot only
RecordOutsDefaultOnly(table, path, task, dir, order, files_on_disk) ==
    IF DefaultSlot \in DOMAIN task.outs /\ Exists(OutFile(task, dir, DefaultSlot), files_on_disk)
    THEN (OutputKey(path, DefaultSlot) :> OutFile(task, dir, DefaultSlot)) @@ table
    ELSE table

\* RecordOuts had build recorded the default slot whether the target
\* declares it or not
RecordOutsUndeclared(table, path, task, dir, order, files_on_disk) ==
    LET Before(missing) ==
            IF missing = {} THEN order ELSE SubSeq(order, 1, Min(missing) - 1)
    IN  (OutputKey(path, DefaultSlot) :> join(dir, <<"o", "u", "t">>))
            @@ InsertOuts(table, path, task, dir,
                          Before({i \in DOMAIN order :
                                    ~Exists(OutFile(task, dir, order[i]), files_on_disk)}))

\* the table after the loop over task.outs in the given order: every slot up
\* to the first missing file is inserted
RecordOuts(table, path, task, dir, order, files_on_disk) ==
    LET Before(missing) ==
            IF missing = {} THEN order ELSE SubSeq(order, 1, Min(missing) - 1)
    IN  InsertOuts(table, path, task, dir,
                   Before({i \in DOMAIN order :
                             ~Exists(OutFile(task, dir, order[i]), files_on_disk)}))

\* Succeeded had build not looked at the exit status
SucceededAlways(status) == TRUE

\* whether build records the outputs of a process that exited with `status`
Succeeded(status) == status = 0

\* build: execute has returned; a process that exited zero has its declared
\* outputs checked and recorded
BuildFinish ==
    /\ At("build", "execute")
    /\ ret.kind # "none"
    /\ stack' = Pop
    /\ IF ret.kind = "err"
       THEN /\ ret' = WithContext(ret, "Building", Top.target)
            /\ UNCHANGED <<target_outs, log>>
       ELSE IF ~Succeeded(ret.status)
       THEN /\ ret' = WithContext([ErrRet(Top.target, "ExitCode") EXCEPT !.status = ret.status],
                                  "Building", Top.target)
            /\ UNCHANGED <<target_outs, log>>
       ELSE \E order \in Orders(DOMAIN Top.task.outs) :
              /\ target_outs' = RecordOuts(target_outs, Top.path, Top.task, Top.dir, order, disk)
              /\ IF \A s \in DOMAIN Top.task.outs : Exists(OutFile(Top.task, Top.dir, s), disk)
                 THEN /\ ret' = BuiltRet(Top.target)
                      /\ log' = Append(log, Event("built", Top.target, 0))
                 ELSE /\ ret' = WithContext(ErrRet(Top.target, "MissingOutputFile"),
                                            "Building", Top.target)
                      /\ UNCHANGED log
    /\ UNCHANGED <<probe, files, sel, shard, calls, reader_vars, disk, run, at_spawn>>

(***************************************************************************)
(* The run driver.                                                         *)
(***************************************************************************)

\* the characters of target names, in the order of their code points
CodePoints ==
    <<"-", "0", "1", "2", "3", "4", "5", "6", "7", "8", "9", "A", "B", "C", "D", "E", "F", "G", "H", "I", "J", "K", "L", "M", "N", "O", "P", "Q", "R", "S", "T", "U", "V", "W", "X", "Y", "Z", "_", "a", "b", "c", "d", "e", "f", "g", "h", "i", "j", "k", "l", "m", "n", "o", "p", "q", "r", "s", "t", "u", "v", "w", "x", "y", "z">>

Rank(c) == CHOOSE i \in DOMAIN CodePoints : CodePoints[i] = c

\* the order of String: by the first differing character, a prefix first
StrLess(x, y) ==
    \E k \in 1..(Len(y)) :
        /\ k <= Len(x) + 1
        /\ SubSeq(x, 1, k - 1) = SubSeq(y, 1, k - 1)
        /\ (k = Len(x) + 1 \/ Rank(x[k]) < Rank(y[k]))

\* BTreeMap iteration: the keys in ascending order
Sorted(S) == CHOOSE o \in Orders(S) : \A i, j \in DOMAIN o : i < j => StrLess(o[i], o[j])

RunStart ==
    [pc |-> "walk", walk |-> Entries, entry |-> <<>>, targets |-> <<>>, names |-> <<>>,
     count |-> 0, error |-> NoRet]

\* run: the walk yields a definition file; one the selector cannot match is
\* skipped, any other is read
RunWalk ==
    /\ run.pc = "walk"
    /\ \E entry \in run.walk :
         IF ~matches_file(sel, entry)
         THEN /\ run' = [run EXCEPT !.walk = @ \ {entry}]
              /\ UNCHANGED rd
         ELSE /\ run' = [run EXCEPT !.walk = @ \ {entry}, !.entry = entry, !.pc = "read"]
              /\ rd' = [rd EXCEPT ![Main] = Reading(entry)]
    /\ UNCHANGED <<probe, files, sel, shard, calls, cache, lock, loads, received, target_outs,
                   disk, stack, ret, log, at_spawn>>

\* run: the file is read; an error ends the run
RunRead ==
    /\ run.pc = "read"
    /\ rd[Main].pc = "done"
    /\ rd' = [rd EXCEPT ![Main] = Idle]
    /\ IF rd[Main].result.kind = "err"
       THEN run' = [run EXCEPT !.pc = "failed",
                               !.error = ErrRet(run.entry, "DefinitionError")]
       ELSE run' = [run EXCEPT !.pc = "targets",
                               !.targets = rd[Main].result.targets,
                               !.names = Sorted(DOMAIN rd[Main].result.targets)]
    /\ UNCHANGED <<probe, files, sel, shard, calls, cache, lock, loads, received, target_outs,
                   disk, stack, ret, log, at_spawn>>

\* run: the next target of the file; one the selector matches is executed in
\* the directory of the file, any other is passed over
RunTarget ==
    LET Visit(path, task) ==
            IF ~matches(sel, path, task.tags)
            THEN /\ run' = [run EXCEPT !.names = Tail(@)]
                 /\ UNCHANGED stack
            ELSE /\ stack' = <<ExecuteFrame(path, task, parent(run.entry).v)>>
                 /\ UNCHANGED run
    IN  /\ run.pc = "targets"
        /\ stack = <<>>
        /\ ret.kind = "none"
        /\ IF run.names = <<>>
           THEN /\ run' = [run EXCEPT !.pc = "walk"]
                /\ UNCHANGED stack
           ELSE Visit(task_path(run.entry, Head(run.names)), run.targets[Head(run.names)])
        /\ UNCHANGED <<probe, files, sel, shard, calls, reader_vars, target_outs, disk, ret, log,
                       at_spawn>>

\* run: execute has returned; an error or a non-zero exit ends the run
RunReturn ==
    /\ run.pc = "targets"
    /\ stack = <<>>
    /\ ret.kind # "none"
    /\ ret' = NoRet
    /\ IF ret.kind = "err"
       THEN run' = [run EXCEPT !.pc = "failed", !.error = ret]
       ELSE IF ret.status # 0
       THEN run' = [run EXCEPT !.pc = "failed", !.error = ErrRet(ret.of, "TaskFailed")]
       ELSE run' = [run EXCEPT !.count = @ + 1, !.names = Tail(@)]
    /\ UNCHANGED <<probe, files, sel, shard, calls, reader_vars, target_outs, disk, stack, log, at_spawn>>

\* RunFinish had run not counted the targets it executed
RunFinishAlwaysOk ==
    /\ run.pc = "walk"
    /\ run.walk = {}
    /\ run' = [run EXCEPT !.pc = "ok"]
    /\ UNCHANGED <<probe, files, sel, shard, calls, reader_vars, target_outs, disk, stack, ret, log, at_spawn>>

\* run: the walk is over; a run that executed no target fails
RunFinish ==
    /\ run.pc = "walk"
    /\ run.walk = {}
    /\ IF run.count > 0
       THEN run' = [run EXCEPT !.pc = "ok"]
       ELSE run' = [run EXCEPT !.pc = "failed", !.error = ErrRet(<<>>, "NoTargetsMatched")]
    /\ UNCHANGED <<probe, files, sel, shard, calls, reader_vars, target_outs, disk, stack, ret, log, at_spawn>>

(***************************************************************************)
(* Specifications.                                                         *)
(***************************************************************************)

\* no function is being called on its own
NoProbe == [fn |-> "none", pc |-> "done", s |-> <<>>, path |-> <<>>, tags |-> {}, out |-> FALSE]

\* the state the Reader and the Builder are constructed in
Fresh ==
    /\ cache = <<>>
    /\ lock = [i \in 1..NumShards |-> 0]
    /\ rd = [t \in Threads |-> Idle]
    /\ calls = [t \in Threads |-> 0]
    /\ loads = <<>>
    /\ received = {}
    /\ target_outs = <<>>
    /\ disk = {}
    /\ stack = <<>>
    /\ ret = NoRet
    /\ log = <<>>
    /\ at_spawn = <<>>

\* one run of `ffs run <selector>` on some project
Init ==
    /\ files \in Projects
    /\ sel \in Selectors
    /\ shard = [p \in ReaderPaths |-> 1]
    /\ run = RunStart
    /\ probe = NoProbe
    /\ Fresh

Next ==
    \/ RunWalk
    \/ RunRead
    \/ RunTarget
    \/ RunReturn
    \/ RunFinish
    \/ ExecPrereqCall
    \/ ExecPrereqRet
    \/ ExecRender
    \/ ExecRenderRet
    \/ ExecSpawn
    \/ BuildStart
    \/ BuildRead
    \/ BuildFinish
    \/ (ReadEntry(Main) /\ UNCHANGED <<probe, files, sel, shard, calls, builder_vars>>)
    \/ (ReadLoad(Main) /\ UNCHANGED <<probe, files, sel, shard, calls, builder_vars>>)

Spec == Init /\ [][Next]_vars

\* the project the Reader's clients read
ReaderProject == CHOOSE f \in Projects : f[FFS][<<"a">>].cmd = CmdEcho

\* client threads calling Reader::read concurrently
InitReader ==
    /\ files = ReaderProject
    /\ sel = SelectorFromStr(<<"*">>).v
    /\ shard \in [ReaderPaths -> 1..NumShards]
    /\ \A p \in ReaderPaths \ {EntryRoot} : shard[p] = 1
    /\ run = RunStart
    /\ probe = NoProbe
    /\ Fresh

NextReader ==
    \E t \in Threads :
        \/ (ClientCall(t) /\ UNCHANGED <<probe, files, sel, shard, builder_vars>>)
        \/ (ReadEntry(t) /\ UNCHANGED <<probe, files, sel, shard, calls, builder_vars>>)
        \/ (ReadLoad(t) /\ UNCHANGED <<probe, files, sel, shard, calls, builder_vars>>)

SpecReader == InitReader /\ [][NextReader]_vars

\* the same with every thread running on: a thread that can take the next
\* step of its read call (entry finds the shard unlocked, load returns)
\* takes it in the end
SpecReaderFair ==
    /\ InitReader
    /\ [][NextReader]_vars
    /\ \A t \in Threads :
          /\ WF_vars(ReadEntry(t) /\ UNCHANGED <<probe, files, sel, shard, calls, builder_vars>>)
          /\ WF_vars(ReadLoad(t) /\ UNCHANGED <<probe, files, sel, shard, calls, builder_vars>>)

(***************************************************************************)
(* The functions of selectors and target addresses, called on their own.  *)
(***************************************************************************)

\* the selectors of the calls, as the user writes them
ProbeSelectors ==
    {<<"*">>,
     <<"/", "/", "a">>,
     <<"/", "/", "p", "a", "t", "h", "/", "t", "o">>,
     <<"/", "/", "p", "a", "t", "h", "/", "t", "o", "/", ".", ".", ".">>,
     <<"/", "/", "p", "a", "t", "h", "/", "t", "o", "/", "t", "a", "r", "g", "e", "t">>,
     <<"/", "/", "p", "a", "t", "h", "/", ".", ".", ".">>,
     <<"/", "/", "p", "a", "t", "h", "/", "t", "o", "@", "x">>,
     <<"/", "/", "p", "a", "t", "h", "/", "t", "o", "/", ".", ".", ".", "@", "x", ",", "y">>,
     <<"/", "/", ".", ".", ".">>}

\* the addresses of the targets the selectors are tried on
ProbeTargets ==
    {<<"/", "/", "a">>,
     <<"/", "/", "p", "a", "t", "h">>,
     <<"/", "/", "p", "a", "t", "h", "/", "t", "o">>,
     <<"/", "/", "p", "a", "t", "h", "/", "t", "o", "/", "t", "a", "r", "g", "e", "t">>,
     <<"/", "/", "p", "a", "t", "h", "/", "t", "o", "/", "s", "u", "b", "/", "t", "a", "r", "g", "e", "t">>,
     <<"/", "/", "p", "a", "t", "h", "/", "t", "o", "_", "e", "l", "s", "e", "w", "h", "e", "r", "e">>,
     <<"/", "/", "p", "a", "t", "h", "/", "t", "o", "_", "e", "l", "s", "e", "w", "h", "e", "r", "e", "/", "t", "a", "r", "g", "e", "t">>}

\* the definition files the selectors are tried on, as the walk yields them
ProbeFiles ==
    {<<".", "/", "F", "F", "S">>,
     <<".", "/", "p", "a", "t", "h", "/", "F", "F", "S">>,
     <<".", "/", "p", "a", "t", "h", "/", "t", "o", "/", "F", "F", "S">>,
     <<".", "/", "p", "a", "t", "h", "/", "t", "o", "/", "s", "u", "b", "/", "F", "F", "S">>,
     <<".", "/", "p", "a", "t", "h", "/", "t", "o", "_", "e", "l", "s", "e", "w", "h", "e", "r", "e", "/", "F", "F", "S">>,
     <<".", "/", "a", "/", "F", "F", "S">>}

\* the longest of the strings tried exhaustively
MaxAddressLen == 5

\* the characters of those strings: the separator, two characters of an
\* ident and one that no ident has
AddressChars == {"/", "a", "_", ":"}

\* the strings parsed as a TargetPath: every string up to the bound, and
\* the longer ones of the tests
ProbeStrings ==
    UNION {[1..n -> AddressChars] : n \in 0..MaxAddressLen}
    \cup {<<"/", "/", "a">>,
          <<"/", "/", "p", "a", "t", "h", "/", "t", "o", "/", "t", "a", "r", "g", "e", "t">>,
          <<"/", "/", "a", "l", "l", "o", "w", "e", "d", "/", "c", "h", "a", "r", "a", "c", "t", "e", "r", "s", "_", "-">>,
          <<"/", "/", "/", "a">>,
          <<"/", "/", "a", "/">>,
          <<"/", "/", "a", "/", "/", "b">>,
          <<"/", "a">>,
          <<"a">>,
          <<"/", "/">>,
          <<"/", "/", "a", ":", "b">>,
          <<"/", "/", "a", "@", "t">>,
          <<"/", "/", "a", " ", "b">>,
          <<"/", "/", "-", "/", "_">>}

\* the strings parsed as an Output: the same, and the ones of its tests
ProbeOutputs ==
    ProbeStrings
    \cup {<<"/", "/", "t">>,
          <<"/", "/", "t", ":", "d", "e", "f", "a", "u", "l", "t">>,
          <<"/", "/", "t", "a", "r", "g", "e", "t", ":", "o", "u", "t", "p", "u", "t">>,
          <<"/", "/", "t", "a", "r", "g", "e", "t", "@", "o", "u", "t", "p", "u", "t">>,
          <<"/", "/", "t", "a", "r", "g", "e", "t", ":", "p", "a", "t", "h", "/", "b", "a", "d">>,
          <<"/", "/", "p", "a", "t", "h", "/", "t", "o", "/", "t", "a", "r", "g", "e", "t", ":", "o", "u", "t", "p", "u", "t">>,
          <<"/", "/", "p", "a", "t", "h", "/", "t", "o", "/", "t", "a", "r", "g", "e", "t">>,
          <<"/", "/", "t", ":", "a", ":", "b">>,
          <<"/", "/", "t", ":", "a", " ", "b">>}

\* the longest of the command strings tried exhaustively
MaxCommandLen == 5

\* the characters of those strings: the two separators of a command and the
\* characters of a short reference
CommandChars == {"/", "a", ":", " ", "\n"}

\* the command strings: every string up to the bound, and the longer ones of
\* the tests, with references that repeat and references that omit the slot
ProbeCommands ==
    UNION {[1..n -> CommandChars] : n \in 0..MaxCommandLen}
    \cup {<<"e", "c", "h", "o", " ", "'", "f", "o", "o", "'">>,
          <<"c", "a", "t", " ", "/", "/", "p", "a", "t", "h", "/", "t", "o", "/", "t", "a", "r", "g", "e", "t", ":", "o", "u", "t", "p", "u", "t">>,
          <<"/", "/", "p", "a", "t", "h", "/", "t", "o", "/", "t", "a", "r", "g", "e", "t", ":", "c", "m", "d", " ", "a", "r", "g", "1", " ", "a", "r", "g", "2">>,
          <<"e", "c", "h", "o", " ", "f", "o", "o", "\n", "/", "/", "s", "o", "m", "e", "/", "t", "a", "r", "g", "e", "t", " ", "b", "a", "r">>,
          <<"c", "a", "t", " ", "/", "/", "a", "/", "b", " ", "x">>,
          <<"c", "a", "t", " ", "/", "/", "b", " ", "/", "/", "b", ":", "x">>,
          <<"c", "a", "t", " ", "/", "/", "b", ":", "x", "\n", "/", "/", "d", "/", "c">>,
          <<"c", "a", "t", " ", "/", "/", "b", " ", " ", "/", "/", "a", ":", "x", " ", "/", "/", "b">>,
          <<"c", "a", "t", " ", "/", "/", "a", ":", "x", " ", "/", "/", "b", " ", "/", "/", "a", ":", "x", "\n">>}

\* the definition files and directories of from_path_name: the ones of its
\* test, and directories whose names hold a '.' or a space
ProbePaths ==
    {<<".", "/", "F", "F", "S">>,
     <<"p", "a", "t", "h", "/", "t", "o">>,
     <<"p", "a", "t", "h", "/", "t", "o", "/">>,
     <<"p", "a", "t", "h", "/", "t", "o", "/", "F", "F", "S">>,
     <<".", "/", "p", "a", "t", "h", "/", "t", "o", "/", "F", "F", "S">>,
     <<".", "/", "p", "a", "t", "h", "/", "t", "o", "/", "f", "a", "k", "e", "F", "F", "S">>,
     <<".", "/", "m", "y", ".", "d", "i", "r", "/", "F", "F", "S">>,
     <<".", "/", "m", "y", " ", "d", "i", "r", "/", "F", "F", "S">>}

\* the names a definition file may give a target
ProbeNames ==
    {<<"t", "a", "s", "k">>,
     <<"a">>,
     <<"m", "y", " ", "t", "a", "s", "k">>,
     <<"a", "/", "b">>,
     <<"l", "i", "n", "t", ":", "f", "i", "x">>,
     <<>>}

\* the tags a target may carry
ProbeTags == SUBSET {<<"x">>, <<"y">>}

\* a caller parses the selector and the address and calls Selector::matches
CallMatches ==
    /\ probe.fn = "matches"
    /\ probe.pc = "call"
    /\ probe' = [probe EXCEPT
                    !.pc = "done",
                    !.out = matches(SelectorFromStr(probe.s).v,
                                    TargetPathToString(TargetPathFromStr(probe.path).v),
                                    probe.tags)]
    /\ UNCHANGED <<files, sel, shard, calls, reader_vars, builder_vars>>

\* a caller parses the selector and calls Selector::matches_file
CallMatchesFile ==
    /\ probe.fn = "matches_file"
    /\ probe.pc = "call"
    /\ probe' = [probe EXCEPT !.pc = "done",
                              !.out = matches_file(SelectorFromStr(probe.s).v, probe.path)]
    /\ UNCHANGED <<files, sel, shard, calls, reader_vars, builder_vars>>

\* a caller parses a string as a TargetPath and formats the result
CallTargetPath ==
    LET Formatted(parsed) ==
            IF parsed.ok THEN Ok(TargetPathToString(parsed.v)) ELSE Err
    IN  /\ probe.fn = "target_path"
        /\ probe.pc = "call"
        /\ probe' = [probe EXCEPT !.pc = "done",
                                  !.out = Formatted(TargetPathFromStr(probe.s))]
        /\ UNCHANGED <<files, sel, shard, calls, reader_vars, builder_vars>>

\* a caller parses a string as an Output
CallOutput ==
    /\ probe.fn = "output"
    /\ probe.pc = "call"
    /\ probe' = [probe EXCEPT !.pc = "done", !.out = OutputFromStr(probe.s)]
    /\ UNCHANGED <<files, sel, shard, calls, reader_vars, builder_vars>>

\* the file a table of the calls holds for an output
PathFor(o) == <<"o", "/">> \o o.target.name \o <<".">> \o o.name

\* the outputs a command references
Refs(words) == {words[i].output : i \in {j \in DOMAIN words : words[j].kind = "Output"}}

\* a caller parses a command, lists its targets and renders it with every
\* table that holds some of the outputs it references
CallCommand ==
    LET Of(words) ==
            [words |-> words,
             targets |-> targets(words),
             rendered |-> [present \in SUBSET Refs(words) |->
                             as_sh(words, [o \in present |-> PathFor(o)])]]
    IN  /\ probe.fn = "command"
        /\ probe.pc = "call"
        /\ probe' = [probe EXCEPT !.pc = "done", !.out = Of(CommandFromStr(probe.s))]
        /\ UNCHANGED <<files, sel, shard, calls, reader_vars, builder_vars>>

\* a caller makes the address of a target of a definition file, formats it
\* and parses the text
CallFromPathName ==
    LET Of(made) ==
            [made |-> made,
             text |-> TargetPathToString(made.v),
             parsed |-> TargetPathFromStr(TargetPathToString(made.v))]
    IN  /\ probe.fn = "from_path_name"
        /\ probe.pc = "call"
        /\ probe' = [probe EXCEPT !.pc = "done",
                                  !.out = Of(from_path_name(probe.path, probe.s))]
        /\ UNCHANGED <<files, sel, shard, calls, reader_vars, builder_vars>>

\* the run driver's two tests of one target: Selector::matches_file on its
\* definition file, Selector::matches on the target itself
CallBoth ==
    LET Of(selector, t) ==
            [file |-> matches_file(selector, TargetPathDefinition(t)),
             target |-> matches(selector, TargetPathToString(t), probe.tags)]
    IN  /\ probe.fn = "both"
        /\ probe.pc = "call"
        /\ probe' = [probe EXCEPT
                        !.pc = "done",
                        !.out = Of(SelectorFromStr(probe.s).v, TargetPathFromStr(probe.path).v)]
        /\ UNCHANGED <<files, sel, shard, calls, reader_vars, builder_vars>>

\* the strings parsed as a TargetPath to be taken back through its
\* definition file: the same, and addresses with FFS as a segment
ProbeAddresses ==
    ProbeStrings
    \cup {<<"/", "/", "F", "F", "S">>,
          <<"/", "/", "F", "F", "S", "/", "a">>,
          <<"/", "/", "a", "/", "F", "F", "S">>,
          <<"/", "/", "/", "a", "/", "b">>}

\* a caller parses a string as a TargetPath t and makes the TargetPath of
\* t.name() in t.definition()
CallDefinition ==
    LET Of(t) ==
            [text |-> TargetPathToString(t),
             file |-> TargetPathDefinition(t),
             back |-> from_path_name(TargetPathDefinition(t), t.name)]
        Parsed(parsed) == IF parsed.ok THEN Ok(Of(parsed.v)) ELSE Err
    IN  /\ probe.fn = "definition"
        /\ probe.pc = "call"
        /\ probe' = [probe EXCEPT !.pc = "done",
                                  !.out = Parsed(TargetPathFromStr(probe.s))]
        /\ UNCHANGED <<files, sel, shard, calls, reader_vars, builder_vars>>

\* the calls: every selector on every address with every set of tags, every
\* selector on every definition file, every string as a TargetPath
InitCalls ==
    /\ files = ReaderProject
    /\ sel = SelectorFromStr(<<"*">>).v
    /\ shard = [p \in ReaderPaths |-> 1]
    /\ run = RunStart
    /\ Fresh
    /\ probe \in
          {[NoProbe EXCEPT !.fn = "matches", !.pc = "call", !.s = s, !.path = t, !.tags = g] :
              s \in ProbeSelectors, t \in ProbeTargets, g \in ProbeTags}
          \cup {[NoProbe EXCEPT !.fn = "both", !.pc = "call", !.s = s, !.path = t, !.tags = g] :
                  s \in ProbeSelectors, t \in ProbeTargets, g \in ProbeTags}
          \cup {[NoProbe EXCEPT !.fn = "matches_file", !.pc = "call", !.s = s, !.path = f] :
                  s \in ProbeSelectors, f \in ProbeFiles}
          \cup {[NoProbe EXCEPT !.fn = "target_path", !.pc = "call", !.s = s] :
                  s \in ProbeStrings}
          \cup {[NoProbe EXCEPT !.fn = "output", !.pc = "call", !.s = s] :
                  s \in ProbeOutputs}
          \cup {[NoProbe EXCEPT !.fn = "command", !.pc = "call", !.s = s] :
                  s \in ProbeCommands}
          \cup {[NoProbe EXCEPT !.fn = "from_path_name", !.pc = "call", !.s = n, !.path = p] :
                  n \in ProbeNames, p \in ProbePaths}
          \cup {[NoProbe EXCEPT !.fn = "definition", !.pc = "call", !.s = s] :
                  s \in ProbeAddresses}

NextCalls ==
    \/ CallMatches
    \/ CallMatchesFile
    \/ CallTargetPath
    \/ CallOutput
    \/ CallCommand
    \/ CallFromPathName
    \/ CallBoth
    \/ CallDefinition

SpecCalls == InitCalls /\ [][NextCalls]_vars

(***************************************************************************)
(* Properties of the Reader, under SpecReader.                             *)
(***************************************************************************)

\* C1, as stated: for every path, load runs at most once over the whole run.
LoadRunsAtMostOnce == \A p \in DOMAIN loads : Len(loads[p]) <= 1

\* C1, amended: for every path, under every interleaving of the callers, load
\* succeeds at most once and never runs after it has succeeded (it runs again
\* only after a failure), two callers never load the same path at the same
\* time, and every caller that receives a result for the path receives the
\* same shared TargetSet, the one the cache holds.
LoadSucceedsAtMostOnce ==
    /\ \A p \in DOMAIN loads : \A i \in DOMAIN loads[p] : loads[p][i] => i = Len(loads[p])
    /\ \A t, u \in Threads :
         (t # u /\ rd[t].pc = "load" /\ rd[u].pc = "load") => rd[t].path # rd[u].path
    /\ \A x, y \in received : x[1] = y[1] => x[2] = y[2]
    /\ \A t \in Threads :
         (rd[t].pc = "done" /\ rd[t].result.kind = "ok")
            => /\ rd[t].path \in DOMAIN cache
               /\ cache[rd[t].path].arc = rd[t].result.arc
               /\ rd[t].result.targets = files[Canon(rd[t].path)]

\* two callers hold the result of one path that was loaded twice: a failure,
\* then the one success
TwoCallersShareOneLoad ==
    \E t, u \in Threads :
        /\ t # u
        /\ rd[t].pc = "done" /\ rd[u].pc = "done"
        /\ rd[t].path = rd[u].path
        /\ rd[t].result.kind = "ok" /\ rd[u].result.kind = "ok"
        /\ loads[rd[t].path] = <<FALSE, TRUE>>

\* C2: when load fails for a path, read returns the error and the cache is
\* unchanged, with no entry for the path; a later read of a path whose loads
\* have all failed invokes load again.
FailedLoadIsNotCached ==
    [][\A t \in Threads :
         /\ (rd[t].pc = "load" /\ rd'[t].pc = "done"
                /\ ~loads'[rd[t].path][Len(loads'[rd[t].path])])
               => /\ rd'[t].result.kind = "err"
                  /\ cache' = cache
                  /\ rd[t].path \notin DOMAIN cache'
         /\ (rd[t].pc = "entry" /\ rd'[t].pc # "entry"
                /\ rd[t].path \in DOMAIN loads
                /\ \A i \in DOMAIN loads[rd[t].path] : ~loads[rd[t].path][i])
               => rd'[t].pc = "load"]_vars

\* a read of a path whose load has failed is loading it again
ReadLoadsAgainAfterFailure ==
    \E t \in Threads :
        /\ rd[t].pc = "load"
        /\ rd[t].path \in DOMAIN loads
        /\ \E i \in DOMAIN loads[rd[t].path] : ~loads[rd[t].path][i]

(***************************************************************************)
(* Properties of the Builder, under Spec.                                  *)
(***************************************************************************)

\* the events of the log of one kind for one target
Count(ev, target, status) ==
    Cardinality({i \in DOMAIN log : log[i] = Event(ev, target, status)})

\* the frames of execute on the stack
ExecuteFrames == {i \in DOMAIN stack : stack[i].fn = "execute"}

\* C3: in any run, the command of each target is executed at most once, also
\* when the target is reached through overlapping dependency chains.
EachCommandExecutedOnce ==
    \A i, j \in DOMAIN Spawns : Spawns[i].target = Spawns[j].target => i = j

\* C4: build keeps no result of its own: every build of a target that
\* returned success spawned the process of the target itself, so that two
\* builds of one target spawn it twice; only the parse is done once for the
\* path build reads the definition file by.
NoBuildResultCache ==
    /\ \A i \in DOMAIN log :
         log[i].ev = "built"
            => Count("built", log[i].target, 0) <= Count("spawn", log[i].target, 0)
    /\ \A p \in DOMAIN loads : Len(loads[p]) <= 1

\* //d/c was built twice and spawned twice, its definition file parsed once
BuiltTwiceParsedOnce ==
    /\ Count("built", TargetC, 0) = 2
    /\ Count("spawn", TargetC, 0) = 2
    /\ join(Root, Canon(EntrySub)) \in DOMAIN loads
    /\ loads[join(Root, Canon(EntrySub))] = <<TRUE>>

\* C5: execute neither renders nor spawns the command before build has
\* returned success for every prerequisite; the prerequisites are built one
\* after another, at most one of them in flight, which is the call right
\* above the frame of execute.
PrereqsBeforeCommand ==
    \A i \in ExecuteFrames :
        /\ stack[i].pc \in {"render", "spawn"}
              => /\ stack[i].done = stack[i].task.prereqs
                 /\ \A q \in stack[i].done : Count("built", q, 0) >= 1
        /\ stack[i].pc = "prereqs"
              => /\ stack[i].built = <<>> /\ stack[i].command = <<>>
                 /\ stack[i].done \cap stack[i].todo = {}
                 /\ (stack[i].done \cup stack[i].todo) \subseteq stack[i].task.prereqs
                 /\ Cardinality(stack[i].task.prereqs \ (stack[i].done \cup stack[i].todo)) <= 1
                 /\ \A q \in stack[i].task.prereqs \ (stack[i].done \cup stack[i].todo) :
                       IF i < Len(stack)
                       THEN stack[i + 1].fn = "build" /\ stack[i + 1].target = q
                       ELSE ret.kind # "none"

\* a target with two prerequisites is about to spawn its command
TwoPrereqsThenSpawn ==
    \E i \in ExecuteFrames :
        stack[i].pc = "spawn" /\ Cardinality(stack[i].task.prereqs) = 2

\* C6: when the process of a prerequisite exits non-zero, execute of the
\* dependent returns that error at once, without spawning a process, and the
\* error names the prerequisite: it is "Building <prerequisite>", and the
\* dependent is not named.
PrereqFailureAborts ==
    [][(/\ At("execute", "prereqs")
        /\ ret.kind = "err" /\ ret.cause = "ExitCode"
        /\ ret.of \in Top.task.prereqs \ (Top.done \cup Top.todo))
          => /\ stack' = Pop
             /\ ret' = ret
             /\ log' = log
             /\ ret'.ctx = <<[what |-> "Building", target |-> ret.of]>>
             /\ ret'.of # Top.path]_vars

\* the run of //a failed on the exit code of its prerequisite //b, and //a
\* was not spawned
RunFailedOnPrereq ==
    /\ run.pc = "failed"
    /\ run.error.cause = "ExitCode"
    /\ run.error.of = TargetB
    /\ run.error.ctx = <<[what |-> "Building", target |-> TargetB]>>
    /\ TargetB \in files[FFS][<<"a">>].prereqs
    /\ \A i \in DOMAIN Spawns : Spawns[i].target # TargetA

\* C7: when the process of a target exits non-zero, build returns an error
\* for the target and the output table is what it was before the process ran.
FailedBuildRecordsNothing ==
    [][(At("build", "execute") /\ ret.kind = "output" /\ ret.status # 0)
          => /\ ret'.kind = "err" /\ ret'.cause = "ExitCode" /\ ret'.of = Top.target
             /\ target_outs' = target_outs
             /\ target_outs = at_spawn]_vars

\* a build failed on the exit code of a target whose declared file exists
\* from an earlier build
BuildFailedWithFilesLeft ==
    /\ ret.kind = "err" /\ ret.cause = "ExitCode"
    /\ Count("built", ret.of, 0) >= 1
    /\ target_outs # <<>>

\* C8: when build returns success, every declared file of the target existed
\* when it was checked and the table maps Output{target, slot} to
\* working_dir/relative_path for every declared slot; when a declared file is
\* missing, build returns a MissingOutputFile error.
SuccessRecordsOutputs ==
    [][(At("build", "execute") /\ ret.kind = "output" /\ ret.status = 0)
          => IF \A s \in DOMAIN Top.task.outs : Canon(join(Top.dir, Top.task.outs[s])) \in disk
             THEN /\ ret' = BuiltRet(Top.target)
                  /\ \A s \in DOMAIN Top.task.outs :
                        /\ [target |-> TargetPathFromStr(Top.target).v, name |-> s]
                              \in DOMAIN target_outs'
                        /\ target_outs'[[target |-> TargetPathFromStr(Top.target).v, name |-> s]]
                              = join(Top.dir, Top.task.outs[s])
             ELSE ret'.kind = "err" /\ ret'.cause = "MissingOutputFile"]_vars

\* build of //b returned success with both of its slots in the table
BothSlotsRecorded ==
    /\ ret = BuiltRet(TargetB)
    /\ DOMAIN files[FFS][<<"b">>].outs = {DefaultSlot, <<"x">>}
    /\ \A s \in {DefaultSlot, <<"x">>} :
          [target |-> TargetPathFromStr(TargetB).v, name |-> s] \in DOMAIN target_outs

\* C9: executing a target whose command references outputs of a target that
\* has not been built calls build for that target once.
ReferencedTargetBuiltOnce ==
    \A f \in ExecuteFrames :
        \A i, j \in DOMAIN stack[f].built : stack[f].built[i] = stack[f].built[j] => i = j

\* C10: every retry of the render/build loop that does not succeed reports an
\* unresolved output different from the ones reported before.
RetryReportsNewOutput ==
    \A f \in ExecuteFrames :
        \A i, j \in DOMAIN stack[f].reported :
            stack[f].reported[i] = stack[f].reported[j] => i = j


\* C11: a target run as a top-level entry point registers its declared
\* outputs in the output table after it succeeds: when execute returns exit
\* status zero to run, every declared slot of the target whose file is on
\* disk is a key of the table.
TopLevelRegistersOutputs ==
    (run.pc = "targets" /\ stack = <<>> /\ ret.kind = "output" /\ ret.status = 0)
        => \A s \in DOMAIN run.targets[Head(run.names)].outs :
              Exists(OutFile(run.targets[Head(run.names)], parent(run.entry).v, s), disk)
                  => [target |-> TargetPathFromStr(ret.of).v, name |-> s]
                        \in DOMAIN target_outs


\* C12: a run in which no target passed Selector.matches ends in failure
\* with NoTargetsMatched; a run ends in success only if at least one matched
\* target was executed, and every top-level target that was executed exited
\* zero: the count of executed targets grows only when execute returns exit
\* status zero to run, and any other return of execute ends the run in failure.
RunSucceedsOnlyWithTargets ==
    /\ [](run.pc = "ok" => run.count >= 1)
    /\ [][run.count' # run.count
            => /\ run.pc = "targets" /\ stack = <<>>
               /\ ret.kind = "output" /\ ret.status = 0
               /\ matches(sel, ret.of, run.targets[Head(run.names)].tags)
               /\ run.count' = run.count + 1]_vars
    /\ [][(run.pc = "targets" /\ stack = <<>> /\ ret.kind # "none"
             /\ ~(ret.kind = "output" /\ ret.status = 0))
            => run'.pc = "failed"]_vars
    /\ [][(run.pc = "walk" /\ run.walk = {} /\ run.count = 0)
            => (run'.pc = "failed" /\ run'.error.cause = "NoTargetsMatched")]_vars
    /\ [][run.pc \notin {"ok", "failed"}]_vars

\* a run ended in success after two top-level targets exited zero
RunOkAfterTwoTargets ==
    /\ run.pc = "ok"
    /\ run.count = 2
    /\ Len(Spawns) >= 2


\* a failure is on its way out of the run: an error being returned, a process
\* that exited non-zero, a definition file that failed to load, or the run
\* already ended in failure
Failing ==
    \/ ret.kind = "err"
    \/ ret.kind = "output" /\ ret.status # 0
    \/ rd[Main].pc = "done" /\ rd[Main].result.kind = "err"
    \/ run.pc = "failed"

\* C13: every failure aborts the whole run: after the first error at any
\* depth no further process is spawned, no further build is called, the call
\* stack only unwinds, the failure stays until the run has ended in failure,
\* and a run that ended takes no further step.
FailureAbortsRun ==
    /\ [][Failing => (Failing' /\ log' = log /\ disk' = disk
                        /\ target_outs' = target_outs
                        /\ Len(stack') <= Len(stack))]_vars
    /\ [](Failing => run.pc # "ok")
    /\ [][run.pc \notin {"ok", "failed"}]_vars
    /\ [][(Failing /\ stack = <<>> /\ rd[Main].pc # "load") => run'.pc = "failed"]_vars

\* the run ended on an error raised two calls down, after a process had been
\* spawned and with targets of the file still to visit
RunFailedFromDepth ==
    /\ run.pc = "failed"
    /\ Len(run.error.ctx) >= 2
    /\ Len(Spawns) >= 1
    /\ Len(run.names) >= 2


\* C14: a Build whose OS constraint differs from the host fails with an
\* unsupported-platform error and its process is never spawned; the check is
\* made once the prerequisites were built and the command was rendered; a
\* target without a constraint (every Task, a Build with none) never fails it.
UnsupportedPlatformNeverSpawned ==
    /\ [][At("execute", "spawn")
            => IF /\ Top.task.kind = "Build"
                  /\ Top.task.runs_on.some
                  /\ Top.task.runs_on.v # host
               THEN /\ ret' = ErrRet(Top.path, "UnsupportedPlatform")
                    /\ stack' = Pop
                    /\ log' = log
                    /\ disk' = disk
               ELSE ret'.cause # "UnsupportedPlatform"]_vars
    /\ [](At("execute", "spawn")
            => /\ Top.todo = {}
               /\ Top.done = Top.task.prereqs
               /\ \A q \in Top.task.prereqs : Count("built", q, 0) >= 1
               /\ parse_command(Top.task.cmd, target_outs).ok
               /\ Top.command = parse_command(Top.task.cmd, target_outs).v)
    /\ [](\A i \in DOMAIN Spawns :
            Spawns[i].target = TargetC
                => ~(/\ files[<<"d", "/">> \o FFS][<<"c">>].runs_on.some
                     /\ files[<<"d", "/">> \o FFS][<<"c">>].runs_on.v # host))

\* //d/c, a Build for another platform, failed the check after its
\* prerequisite //b had been built
UnsupportedAfterPrereqBuilt ==
    /\ ret = ErrRet(TargetC, "UnsupportedPlatform")
    /\ files[<<"d", "/">> \o FFS][<<"c">>].prereqs = {TargetB}
    /\ Count("built", TargetB, 0) >= 1
    /\ \E i \in DOMAIN Spawns : Spawns[i].target = TargetB


\* the targets of ./FFS that are on a cycle: //a when its command references
\* its own output, //a and //b when each is a prerequisite of the other
OnCycle ==
    (IF files[FFS][<<"a">>].cmd = CmdSelf THEN {TargetA} ELSE {})
    \cup (IF /\ TargetB \in files[FFS][<<"a">>].prereqs
             /\ TargetA \in files[FFS][<<"b">>].prereqs
          THEN {TargetA, TargetB} ELSE {})

\* C15: cyclic dependencies are not detected: build of a target on a cycle
\* never returns success, its process is never spawned, and no error
\* returned in the run is an error about the cycle; the errors are the ones of
\* the definitions, the platform and the processes.
CycleNeverBuiltNorReported ==
    /\ \A t \in OnCycle :
          /\ Count("built", t, 0) = 0
          /\ ret # BuiltRet(t)
          /\ \A i \in DOMAIN Spawns : Spawns[i].target # t
    /\ ret.kind = "err"
          => ret.cause \in {"InvalidTarget", "DefinitionError", "UnknownTask", "ExitCode",
                            "MissingOutputFile", "UnsupportedPlatform", "SpawnFailed"}
    /\ run.pc = "failed"
          => run.error.cause \in {"InvalidTarget", "DefinitionError", "UnknownTask",
                                  "ExitCode", "MissingOutputFile", "UnsupportedPlatform",
                                  "SpawnFailed", "TaskFailed", "NoTargetsMatched"}

\* build(//a) is running inside build(//a): the recursion of a cycle
BuildInsideItself ==
    /\ TargetA \in OnCycle
    /\ \E i, j \in DOMAIN stack :
          /\ i < j
          /\ stack[i].fn = "build" /\ stack[i].target = TargetA
          /\ stack[j].fn = "build" /\ stack[j].target = TargetA

(***************************************************************************)
(* Properties of selectors and addresses, under SpecCalls.                 *)
(***************************************************************************)

\* the selector of the call
ProbeSel == SelectorFromStr(probe.s).v

\* whether `path` is `prefix`, a '/' and more text
Under(path, prefix) ==
    /\ Len(path) >= Len(prefix) + 2
    /\ SubSeq(path, 1, Len(prefix)) = prefix
    /\ path[Len(prefix) + 1] = "/"

\* C16: the path test of Selector.matches: with the required tags present,
\* matches is true iff the path equals the prefix exactly, or descendants
\* are allowed and the path is the prefix followed immediately by '/' and
\* more text; a string prefix without the separator does not match and an
\* exact selector never matches a descendant.
MatchesAtSeparatorBoundary ==
    (probe.fn = "matches" /\ probe.pc = "done" /\ ProbeSel.required_tags \subseteq probe.tags)
        => probe.out = (\/ probe.path = ProbeSel.target
                        \/ ProbeSel.allow_children /\ Under(probe.path, ProbeSel.target))

\* the glob //path/to/... was tried on //path/to_elsewhere/target and did
\* not match
GlobRejectedSibling ==
    /\ probe.fn = "matches" /\ probe.pc = "done"
    /\ probe.s = <<"/", "/", "p", "a", "t", "h", "/", "t", "o", "/", ".", ".", ".">>
    /\ probe.path = <<"/", "/", "p", "a", "t", "h", "/", "t", "o", "_", "e", "l", "s", "e", "w", "h", "e", "r", "e", "/", "t", "a", "r", "g", "e", "t">>
    /\ probe.out = FALSE

\* C17: Selector.matches requires every tag of the selector: for a selector
\* with the required tags R and a target with the tags T, matches is false
\* unless R is a subset of T, whatever the path, and a target with some but
\* not all of R never matches.
MatchesNeedsEveryTag ==
    (probe.fn = "matches" /\ probe.pc = "done")
        => /\ probe.out => \A r \in ProbeSel.required_tags : r \in probe.tags
           /\ (\E r \in ProbeSel.required_tags : r \notin probe.tags) => ~probe.out

\* a selector requiring x and y was tried on a target under its prefix that
\* carries x only, and did not match
OneTagOfTwoRejected ==
    /\ probe.fn = "matches" /\ probe.pc = "done"
    /\ ProbeSel.required_tags = {<<"x">>, <<"y">>}
    /\ probe.tags = {<<"x">>}
    /\ StartsWith(probe.path, ProbeSel.target \o <<"/">>)
    /\ probe.out = FALSE

\* the directory of a definition file, as its components below the root
FileDir(file) == SelectSeq(Components(parent(file).v), LAMBDA c : c # <<".">>)

\* the components of an address after its "//"
AddressParts(address) == Components(SubSeq(address, 3, Len(address)))

\* the parent directory of an address, as its components below the root: none
\* for an address without a directory
AddressDir(address) == SubSeq(AddressParts(address), 1, Len(AddressParts(address)) - 1)

\* C18: Selector.matches_file for an exact selector is true only for the
\* definition file in exactly the parent directory of the prefix (the root
\* definition file when the prefix has no parent directory), and is true for
\* that file; a sibling directory whose name extends the parent's name does
\* not match.
ExactMatchesFileOfParentOnly ==
    (probe.fn = "matches_file" /\ probe.pc = "done" /\ ~ProbeSel.allow_children)
        => probe.out = (FileDir(probe.path) = AddressDir(ProbeSel.target))

\* the exact selector //path/to/target was tried on ./path/to_elsewhere/FFS
\* and did not match
ExactRejectedSiblingFile ==
    /\ probe.fn = "matches_file" /\ probe.pc = "done"
    /\ probe.s = <<"/", "/", "p", "a", "t", "h", "/", "t", "o", "/", "t", "a", "r", "g", "e", "t">>
    /\ probe.path = <<".", "/", "p", "a", "t", "h", "/", "t", "o", "_", "e", "l", "s", "e", "w", "h", "e", "r", "e", "/", "F", "F", "S">>
    /\ probe.out = FALSE

\* C19: Selector.matches_file for a glob P/... applies the separator
\* boundary of matches: it is true for a definition file whose directory is
\* P or lies under P, and false for a directory that only has P as a string
\* prefix.
GlobMatchesFileAtBoundary ==
    (probe.fn = "matches_file" /\ probe.pc = "done" /\ ProbeSel.allow_children)
        => probe.out = /\ Len(AddressParts(ProbeSel.target)) <= Len(FileDir(probe.path))
                       /\ SubSeq(FileDir(probe.path), 1, Len(AddressParts(ProbeSel.target)))
                             = AddressParts(ProbeSel.target)

\* C20: TargetPath round-trips through its textual form: for every string
\* that parses as a TargetPath, formatting the parsed value gives the string
\* back.
TargetPathRoundTrips ==
    (probe.fn = "target_path" /\ probe.pc = "done" /\ probe.out.ok)
        => probe.out.v = probe.s

\* an address with two directories was parsed and formatted
DeepAddressFormatted ==
    /\ probe.fn = "target_path" /\ probe.pc = "done"
    /\ probe.out.ok
    /\ probe.s = <<"/", "/", "p", "a", "t", "h", "/", "t", "o", "/", "t", "a", "r", "g", "e", "t">>
    /\ TargetPathFromStr(probe.s).v.dir = Some(<<"p", "a", "t", "h", "/", "t", "o">>)

\* whether s is "//" and one or more non-empty segments of alphanumeric
\* characters, '_' and '-', separated by single '/'
WellFormedAddress(s) ==
    /\ Len(s) >= 3
    /\ s[1] = "/" /\ s[2] = "/"
    /\ \A i \in 3..Len(s) :
          \/ s[i] \in Alphanumeric \cup {"_", "-"}
          \/ s[i] = "/" /\ i > 3 /\ i < Len(s) /\ s[i - 1] # "/"

\* C21: TargetPath parsing accepts exactly the strings that are "//" and one
\* or more non-empty segments of alphanumeric characters, '_' and '-'
\* separated by single '/'; every other string fails to parse.
ParsesExactlyWellFormed ==
    (probe.fn = "target_path" /\ probe.pc = "done")
        => probe.out.ok = WellFormedAddress(probe.s)

\* C22: a reference without a ":slot" suffix gets the slot "default", so
\* "//t" and "//t:default" parse to equal Outputs; a string with more than
\* one ':' fails to parse, and so does one whose slot holds a character that
\* no identifier has.
OutputSlotDefaultsAndIsChecked ==
    (probe.fn = "output" /\ probe.pc = "done")
        => /\ (probe.out.ok /\ ~Contains(probe.s, <<":">>))
                 => /\ probe.out.v.name = <<"d", "e", "f", "a", "u", "l", "t">>
                    /\ OutputFromStr(probe.s \o <<":", "d", "e", "f", "a", "u", "l", "t">>)
                          = probe.out
           /\ Cardinality(Occurrences(probe.s, <<":">>)) >= 2 => ~probe.out.ok
           /\ (\E i \in DOMAIN probe.s :
                 /\ \E j \in 1..(i - 1) : probe.s[j] = ":"
                 /\ probe.s[i] \notin Alphanumeric \cup {"_", "-"})
                 => ~probe.out.ok

\* a reference without a slot was parsed to the default slot of its target
SlotlessParsedToDefault ==
    /\ probe.fn = "output" /\ probe.pc = "done"
    /\ probe.s = <<"/", "/", "t">>
    /\ probe.out = Ok([target |-> [dir |-> None, name |-> <<"t">>],
                       name |-> <<"d", "e", "f", "a", "u", "l", "t">>])

\* a word as it is written: a literal as it is, a reference by Display
Written(w) == IF w.kind = "Lit" THEN w.lit ELSE OutputToString(w.output)

\* C23: command parsing is lossless: the words of parse(c), concatenated in
\* order with each reference in its textual form, are c again, also when a
\* reference of c omits the slot.
CommandParseIsLossless ==
    (probe.fn = "command" /\ probe.pc = "done")
        => Concat([i \in DOMAIN probe.out.words |-> Written(probe.out.words[i])]) = probe.s

\* the length of the token c starts with: the characters before the first
\* space or newline
TokenLen(c) ==
    IF \E i \in DOMAIN c : c[i] \in {" ", "\n"}
    THEN Min({i \in DOMAIN c : c[i] \in {" ", "\n"}}) - 1
    ELSE Len(c)

\* c with every token that is an output reference replaced by the file the
\* table holds for it, and every other character as it is
RECURSIVE Substituted(_)
Substituted(c) ==
    IF c = <<>> THEN <<>>
    ELSE IF c[1] \in {" ", "\n"} THEN <<c[1]>> \o Substituted(Tail(c))
    ELSE (IF OutputFromStr(SubSeq(c, 1, TokenLen(c))).ok
          THEN PathFor(OutputFromStr(SubSeq(c, 1, TokenLen(c))).v)
          ELSE SubSeq(c, 1, TokenLen(c)))
         \o Substituted(SubSeq(c, TokenLen(c) + 1, Len(c)))

\* C24: with a table that holds every output c references, render(parse(c))
\* is c with each token that is an output reference replaced by its file and
\* every other character, spaces and newlines included, unchanged; a command
\* without references renders to itself with the empty table.
RenderSubstitutesReferences ==
    (probe.fn = "command" /\ probe.pc = "done")
        => /\ probe.out.rendered[Refs(probe.out.words)].ok
           /\ probe.out.rendered[Refs(probe.out.words)].v = Substituted(probe.s)
           /\ Refs(probe.out.words) = {} => probe.out.rendered[{}].v = probe.s

\* a command of two lines with a reference on the second was rendered
TwoLinesRendered ==
    /\ probe.fn = "command" /\ probe.pc = "done"
    /\ Len(probe.out.words) = 5
    /\ probe.out.words[3].kind = "Output"
    /\ "\n" \in Range(probe.s)
    /\ probe.out.rendered[Refs(probe.out.words)].v
          = <<"e", "c", "h", "o", " ", "f", "o", "o", "\n", "o", "/", "t", "a", "r", "g", "e", "t", ".", "d", "e", "f", "a", "u", "l", "t", " ", "b", "a", "r">>

(***************************************************************************)
(* Properties of the Builder, under Spec (continued).                      *)
(***************************************************************************)

\* the references of a command that the table does not hold, as the
\* positions of their words
Absent(words, table) ==
    {i \in DOMAIN words : words[i].kind = "Output" /\ words[i].output \notin DOMAIN table}

\* C25: in-command references are satisfied in the order they are found
\* missing: whenever execute renders a command that has a reference absent
\* from the table, the build it calls is the one of the first absent
\* reference in command order, and it records that reference as the missing
\* one; a command with no absent reference calls no build.
FirstMissingReferenceBuiltFirst ==
    [][(At("execute", "render") /\ ret.kind = "none")
          => IF Absent(CommandFromStr(Top.task.cmd), target_outs) = {}
             THEN Len(stack') = Len(stack)
             ELSE /\ Len(stack') = Len(stack) + 1
                  /\ stack'[Len(stack')].fn = "build"
                  /\ stack'[Len(stack')].target
                        = TargetPathToString(
                            CommandFromStr(Top.task.cmd)[
                                Min(Absent(CommandFromStr(Top.task.cmd), target_outs))
                            ].output.target)
                  /\ stack'[Len(stack)].reported
                        = Append(Top.reported,
                                 CommandFromStr(Top.task.cmd)[
                                     Min(Absent(CommandFromStr(Top.task.cmd), target_outs))
                                 ].output)]_vars

\* execute of "cat //b:x\n//d/c" has built //b and is building //d/c
SecondReferenceBuiltAfterFirst ==
    /\ Len(stack) >= 2
    /\ Top.fn = "build" /\ Top.target = TargetC
    /\ stack[Len(stack) - 1].fn = "execute"
    /\ stack[Len(stack) - 1].task.cmd = CmdBC
    /\ stack[Len(stack) - 1].built = <<TargetB, TargetC>>

\* C26: the output table and the definition cache are append-only within a
\* run: no step removes an entry of either, and no step changes the value of
\* a key that is present, also when the same target is built once more.
TablesAreAppendOnly ==
    [][/\ \A k \in DOMAIN target_outs :
             k \in DOMAIN target_outs' /\ target_outs'[k] = target_outs[k]
       /\ \A p \in DOMAIN cache :
             p \in DOMAIN cache' /\ cache'[p] = cache[p]]_vars

\* //a has been built a second time, with its output in the table and both
\* keys of its definition file in the cache
BuiltAgainWithEntriesKept ==
    /\ Count("built", TargetA, 0) >= 2
    /\ [target |-> TargetPathFromStr(TargetA).v, name |-> DefaultSlot] \in DOMAIN target_outs
    /\ Cardinality(DOMAIN cache) >= 2

(***************************************************************************)
(* Properties of commands and addresses, under SpecCalls (continued).      *)
(***************************************************************************)

\* C27: Command.targets() yields each referenced target address once, also
\* for a command that references the same target several times.
TargetsYieldsEachTargetOnce ==
    (probe.fn = "command" /\ probe.pc = "done")
        => \A i, j \in DOMAIN probe.out.targets :
              probe.out.targets[i] = probe.out.targets[j] => i = j

\* C28: every TargetPath value, made by parsing or by from_path_name, has
\* only non-empty segments of the identifier grammar, so that its text parses
\* back to an equal TargetPath.
EveryTargetPathIsWellFormed ==
    /\ (probe.fn = "from_path_name" /\ probe.pc = "done")
          => /\ WellFormedAddress(probe.out.text)
             /\ probe.out.parsed = probe.out.made
    /\ (probe.fn = "target_path" /\ probe.pc = "done" /\ probe.out.ok)
          => /\ WellFormedAddress(probe.out.v)
             /\ TargetPathFromStr(probe.out.v) = TargetPathFromStr(probe.s)

\* C29: Selector.matches_file is a sound pre-filter: for every selector,
\* target and set of tags, if matches is true of the target then
\* matches_file is true of the target's definition file.
MatchesFileIsSoundPrefilter ==
    (probe.fn = "both" /\ probe.pc = "done")
        => (probe.out.target => probe.out.file)

(***************************************************************************)
(* Properties of the Builder, under Spec (concluded).                      *)
(***************************************************************************)

\* C30: build is all-or-nothing on the output table: when build of a target
\* has just returned a MissingOutputFile error, the table holds no entry for
\* the target that it did not hold when the target's process was spawned.
FailedBuildLeavesNoEntry ==
    (ret.kind = "err" /\ ret.cause = "MissingOutputFile" /\ Len(ret.ctx) = 1)
        => \A k \in DOMAIN target_outs :
              k.target = TargetPathFromStr(ret.of).v => k \in DOMAIN at_spawn

\* the slots the project declares for the target at an address
DeclaredSlots(target) ==
    LET Of(d, n) ==
            IF d.ok /\ n.ok /\ d.v \in DOMAIN files /\ n.v \in DOMAIN files[d.v]
            THEN DOMAIN files[d.v][n.v].outs
            ELSE {}
    IN  Of(path_to_definition(target), name(target))

\* C31: in every reachable state of a run, each entry Output{t, slot} of the
\* output table was inserted after a process for t was spawned and exited
\* with status zero in this run, and slot is a slot declared in t's outs.
EntriesComeFromSuccessfulProcesses ==
    \A k \in DOMAIN target_outs :
        /\ Count("spawn", TargetPathToString(k.target), 0) >= 1
        /\ k.name \in DeclaredSlots(TargetPathToString(k.target))

\* the table holds the second slot of //b and the slot of //d/c, each
\* recorded after its process exited with status zero
EntriesOfTwoTargets ==
    /\ [target |-> TargetPathFromStr(TargetB).v, name |-> <<"x">>] \in DOMAIN target_outs
    /\ [target |-> TargetPathFromStr(TargetC).v, name |-> DefaultSlot] \in DOMAIN target_outs
    /\ Count("spawn", TargetB, 0) >= 1
    /\ Count("spawn", TargetC, 0) >= 1

(***************************************************************************)
(* Properties of the functions of target addresses, under SpecCalls        *)
(* (concluded).                                                            *)
(***************************************************************************)

\* C32: TargetPath.definition() and TargetPath::from_path_name are inverse:
\* for every parsed TargetPath t, from_path_name(t.definition(), t.name())
\* has the same string form as t.
DefinitionInvertsFromPathName ==
    (probe.fn = "definition" /\ probe.pc = "done" /\ probe.out.ok)
        => /\ probe.out.v.back.ok
           /\ TargetPathToString(probe.out.v.back.v) = probe.out.v.text

(***************************************************************************)
(* Properties of the Reader, under SpecReaderFair.                         *)
(***************************************************************************)

\* C33: Reader.read never deadlocks: when every load call terminates, any
\* set of concurrent read calls on equal or different paths all eventually
\* return, although the map entry is held locked while load runs.  A call
\* leaves "entry" and "load" only by returning, so each thread is again and
\* again outside of a call exactly when each of its calls returns.
ReadAlwaysReturns ==
    \A t \in Threads : []<>(rd[t].pc \notin {"entry", "load"})

\* a read call waits for the lock of its shard while another thread runs
\* load for a different path of the same shard
ReadWaitsForLoadOfOtherPath ==
    \E t, u \in Threads :
        /\ rd[t].pc = "entry"
        /\ rd[u].pc = "load"
        /\ rd[t].path # rd[u].path
        /\ lock[shard[rd[t].path]] = u

====
